---- MODULE Spec2Model ----
(***************************************************************************)
(* Semester-registration service of the university management server.      *)
(*                                                                         *)
(* The state is the two collections the service reads and writes (the      *)
(* academic semesters and the semester registrations), the last call made  *)
(* on the service with its outcome, and, for the interleaved               *)
(* specification, the position and locals of every request in flight.      *)
(*                                                                         *)
(*   Spec      every service call runs to completion before the next one   *)
(*   SpecConc  requests interleave at their awaited persistence calls      *)
(*   SpecHttp  one request at a time through the middlewares: the global   *)
(*             error handler, validateRequest and the list operations      *)
(***************************************************************************)
EXTENDS Integers, Sequences, FiniteSets

VARIABLES academicSemesters, registrations, call, pc, local, request, response

vars == <<academicSemesters, registrations, call, pc, local, request, response>>

\* ------------------------------------------------------------------ bounds

\* Cap on the number of registrations the collection may hold.
MaxRegs == 2

\* Object ids a client may send as an academic semester reference.
SemesterIds == {"S1", "S2"}

\* Values of a non-status scheduling field (startDate).
Dates == {"D1", "D2"}

\* Requests in flight at once in the interleaved specification.
Procs == {"p1", "p2"}

\* ------------------------------------------------------- program constants

UPCOMING == "UPCOMING"
ONGOING == "ONGOING"
ENDED == "ENDED"

RegistrationStatus == {UPCOMING, ONGOING, ENDED}

\* A field the payload does not carry (undefined).
Absent == "absent"

OK == 200
BAD_REQUEST == 400
NOT_FOUND == 404
CONFLICT == 409

\* Registration ids a client may address: every slot of the collection and
\* one id that never resolves.
RegIds == 1..(MaxRegs + 1)

\* ----------------------------------------------------------------- payloads

\* TSemesterRegistration: the reference and the scheduling field are
\* required, the status is optional.
CreatePayloads ==
    [academicSemester : SemesterIds,
     status : RegistrationStatus \cup {Absent},
     startDate : Dates]

\* Partial<TSemesterRegistration>: any subset of the fields.
UpdatePayloads ==
    [academicSemester : SemesterIds \cup {Absent},
     status : RegistrationStatus \cup {Absent},
     startDate : Dates \cup {Absent}]

NoPayload == [academicSemester |-> Absent, status |-> Absent, startDate |-> Absent]

\* ---------------------------------------------------------------- outcomes

\* new AppError(statusCode, message); a message is the sequence of the
\* template's literal parts and interpolated values.
AppError(statusCode, message) ==
    [error |-> TRUE, statusCode |-> statusCode, message |-> message]

\* The service returned: the controller answers with httpStatus.OK.
Returned == [error |-> FALSE, statusCode |-> OK, message |-> <<>>]

\* ------------------------------------------------------ persistence queries

\* Mutant of the in-flight query: it matches a registration of any status.
findOneInFlight_AnyStatus(regs) == IF Len(regs) = 0 THEN 0 ELSE 1

\* SemesterRegistration.findOne({$or: [{status: UPCOMING}, {status: ONGOING}]}):
\* the index of the first matching document, 0 for null.
findOneInFlight(regs) ==
    LET hits == {i \in 1..Len(regs) : regs[i].status \in {UPCOMING, ONGOING}}
    IN  IF hits = {} THEN 0
        ELSE CHOOSE i \in hits : \A j \in hits : i <= j

\* AcademicSemister.findById(academicSemester): does the id resolve.
findSemesterById(sems, id) == id \in sems

\* SemesterRegistration.findOne({academicSemester}): index of the first match.
findOneBySemester(regs, academicSemester) ==
    LET hits == {i \in 1..Len(regs) : regs[i].academicSemester = academicSemester}
    IN  IF hits = {} THEN 0
        ELSE CHOOSE i \in hits : \A j \in hits : i <= j

\* SemesterRegistration.findById(id): the index itself when it resolves.
findById(regs, id) == IF id \in 1..Len(regs) THEN id ELSE 0

\* The schema's default for a missing status.
StatusDefault == UPCOMING

\* SemesterRegistration.create(payload): the stored document.
NewDocument(payload) ==
    [academicSemester |-> payload.academicSemester,
     status |-> IF payload.status = Absent THEN StatusDefault ELSE payload.status,
     startDate |-> payload.startDate]

\* Mutant of the update: a field the payload does not carry is unset.
ApplyUpdate_Replace(doc, payload) ==
    [academicSemester |-> IF payload.academicSemester = Absent
                          THEN doc.academicSemester ELSE payload.academicSemester,
     status |-> IF payload.status = Absent THEN StatusDefault ELSE payload.status,
     startDate |-> IF payload.startDate = Absent
                   THEN doc.startDate ELSE payload.startDate]

\* findByIdAndUpdate(id, payload): the fields the payload carries are set.
ApplyUpdate(doc, payload) ==
    [academicSemester |-> IF payload.academicSemester = Absent
                          THEN doc.academicSemester ELSE payload.academicSemester,
     status |-> IF payload.status = Absent THEN doc.status ELSE payload.status,
     startDate |-> IF payload.startDate = Absent
                   THEN doc.startDate ELSE payload.startDate]

\* ------------------------------------------------- createSemesterRegistration

\* Mutant of check 1: the query asks for UPCOMING only.
CreateStatusCheck_OnlyUpcoming(regs) ==
    LET hits == {i \in 1..Len(regs) : regs[i].status = UPCOMING}
    IN  IF hits # {}
        THEN AppError(BAD_REQUEST,
                      <<"There is already a semester with status", UPCOMING>>)
        ELSE Returned

\* Check 1: a registration with status UPCOMING or ONGOING exists.
CreateStatusCheck(regs) ==
    LET i == findOneInFlight(regs)
    IN  IF i # 0
        THEN AppError(BAD_REQUEST,
                      <<"There is already a semester with status", regs[i].status>>)
        ELSE Returned

\* Check 2: the referenced academic semester exists.
CreateSemesterCheck(sems, payload) ==
    IF ~findSemesterById(sems, payload.academicSemester)
    THEN AppError(NOT_FOUND, <<"This academic semester does not exist!">>)
    ELSE Returned

\* Mutant of check 3: the duplicate check never fires.
CreateDuplicateCheck_Never(regs, payload) == Returned

\* Check 3: no registration references the semester yet.
CreateDuplicateCheck(regs, payload) ==
    IF findOneBySemester(regs, payload.academicSemester) # 0
    THEN AppError(CONFLICT, <<"This semester already exists">>)
    ELSE Returned

\* Mutant of the order of the checks: the semester lookup comes first.
CreateChecks_SemesterFirst(regs, sems, payload) ==
    IF CreateSemesterCheck(sems, payload).error
    THEN CreateSemesterCheck(sems, payload)
    ELSE IF CreateStatusCheck(regs).error THEN CreateStatusCheck(regs)
    ELSE CreateDuplicateCheck(regs, payload)

\* The checks in the order of the code; the first failing one throws.
CreateChecks(regs, sems, payload) ==
    IF CreateStatusCheck(regs).error THEN CreateStatusCheck(regs)
    ELSE IF CreateSemesterCheck(sems, payload).error
         THEN CreateSemesterCheck(sems, payload)
    ELSE CreateDuplicateCheck(regs, payload)

\* The collection after the call: the create is reached only when no check threw.
CreateWrite(regs, outcome, payload) ==
    IF outcome.error THEN regs ELSE Append(regs, NewDocument(payload))

\* ------------------------------------------------- updateSemesterRegistration

\* Mutant of the update checks: the ONGOING -> UPCOMING check is missing.
UpdateChecks_NoBackwardCheck(current, payload) ==
    IF current = Absent
    THEN AppError(NOT_FOUND, <<"This semester does not exist">>)
    ELSE IF current = ENDED
    THEN AppError(BAD_REQUEST, <<"This semester is already", current>>)
    ELSE IF current = UPCOMING /\ payload.status = ENDED
    THEN AppError(BAD_REQUEST, <<"Can not change", current, "to", payload.status>>)
    ELSE Returned

\* Mutant of the update checks: the ENDED check is missing.
UpdateChecks_NoEndedCheck(current, payload) ==
    IF current = Absent
    THEN AppError(NOT_FOUND, <<"This semester does not exist">>)
    ELSE IF current = UPCOMING /\ payload.status = ENDED
    THEN AppError(BAD_REQUEST, <<"Can not change", current, "to", payload.status>>)
    ELSE IF current = ONGOING /\ payload.status = UPCOMING
    THEN AppError(BAD_REQUEST, <<"Can not change", current, "to", payload.status>>)
    ELSE Returned

\* Mutant of the update checks: an ENDED record accepts a payload that keeps
\* its status (the ENDED check is made on the requested transition).
UpdateChecks_EndedSameAllowed(current, payload) ==
    IF current = Absent
    THEN AppError(NOT_FOUND, <<"This semester does not exist">>)
    ELSE IF current = ENDED /\ payload.status \notin {ENDED, Absent}
    THEN AppError(BAD_REQUEST, <<"This semester is already", current>>)
    ELSE IF current = UPCOMING /\ payload.status = ENDED
    THEN AppError(BAD_REQUEST, <<"Can not change", current, "to", payload.status>>)
    ELSE IF current = ONGOING /\ payload.status = UPCOMING
    THEN AppError(BAD_REQUEST, <<"Can not change", current, "to", payload.status>>)
    ELSE Returned

\* The checks that follow findById, on the status read (Absent for null).
UpdateChecks(current, payload) ==
    IF current = Absent
    THEN AppError(NOT_FOUND, <<"This semester does not exist">>)
    ELSE IF current = ENDED
    THEN AppError(BAD_REQUEST, <<"This semester is already", current>>)
    ELSE IF current = UPCOMING /\ payload.status = ENDED
    THEN AppError(BAD_REQUEST, <<"Can not change", current, "to", payload.status>>)
    ELSE IF current = ONGOING /\ payload.status = UPCOMING
    THEN AppError(BAD_REQUEST, <<"Can not change", current, "to", payload.status>>)
    ELSE Returned

\* isSmesterRegistrationExist?.status
CurrentStatus(regs, id) ==
    IF findById(regs, id) = 0 THEN Absent ELSE regs[id].status

\* Mutant of the update's write: the document is written before the checks.
UpdateWrite_IgnoresOutcome(regs, outcome, id, payload) ==
    IF findById(regs, id) = 0 THEN regs
    ELSE [regs EXCEPT ![id] = ApplyUpdate(regs[id], payload)]

\* The collection after the call: findByIdAndUpdate is reached only when no
\* check threw; it writes the addressed document if it (still) exists.
UpdateWrite(regs, outcome, id, payload) ==
    IF outcome.error \/ findById(regs, id) = 0 THEN regs
    ELSE [regs EXCEPT ![id] = ApplyUpdate(regs[id], payload)]

\* ------------------------------------------------------------------- state

NoCall ==
    [op |-> "none", id |-> 0, payload |-> NoPayload, current |-> Absent,
     outcome |-> Returned]

NoLocal == [id |-> 0, payload |-> NoPayload]

\* No request has reached the middlewares, no response was sent.
NoRequest == [kind |-> "none"]

NoResponse == [kind |-> "none"]

Init ==
    /\ academicSemesters = {}
    /\ registrations = <<>>
    /\ call = NoCall
    /\ pc = [p \in Procs |-> "idle"]
    /\ local = [p \in Procs |-> NoLocal]
    /\ request = NoRequest
    /\ response = NoResponse

\* AcademicSemesterServices.createAcademicSemesterInDb: a semester is stored.
createAcademicSemester(s) ==
    /\ s \notin academicSemesters
    /\ academicSemesters' = academicSemesters \cup {s}
    /\ call' = NoCall
    /\ UNCHANGED <<registrations, pc, local, request, response>>

\* -------------------------------------------------- calls run to completion

createSemesterRegistrationInDb(payload) ==
    LET outcome == CreateChecks(registrations, academicSemesters, payload)
    IN  /\ outcome.error \/ Len(registrations) < MaxRegs
        /\ registrations' = CreateWrite(registrations, outcome, payload)
        /\ call' = [op |-> "create", id |-> 0, payload |-> payload,
                    current |-> Absent, outcome |-> outcome]
        /\ UNCHANGED <<academicSemesters, pc, local, request, response>>

updateSemesterRegistrationIntoDb(id, payload) ==
    LET current == CurrentStatus(registrations, id)
        outcome == UpdateChecks(current, payload)
    IN  /\ registrations' = UpdateWrite(registrations, outcome, id, payload)
        /\ call' = [op |-> "update", id |-> id, payload |-> payload,
                    current |-> current, outcome |-> outcome]
        /\ UNCHANGED <<academicSemesters, pc, local, request, response>>

Next ==
    \/ \E s \in SemesterIds : createAcademicSemester(s)
    \/ \E payload \in CreatePayloads : createSemesterRegistrationInDb(payload)
    \/ \E id \in RegIds, payload \in UpdatePayloads :
          updateSemesterRegistrationIntoDb(id, payload)

Spec == Init /\ [][Next]_vars

\* ------------------------------------------- requests that interleave (await)

\* The payloads of the interleaved requests: the fields the checks read.
ConcCreatePayloads == {payload \in CreatePayloads : payload.startDate = "D1"}

ConcUpdatePayloads ==
    {payload \in UpdatePayloads :
        payload.startDate = Absent /\ payload.academicSemester = Absent}

\* The request of p ends (it returned or threw).
Finish(p) ==
    /\ pc' = [pc EXCEPT ![p] = "idle"]
    /\ local' = [local EXCEPT ![p] = NoLocal]

\* The request of p goes on to its next awaited call.
Goto(p, label, id, payload) ==
    /\ pc' = [pc EXCEPT ![p] = label]
    /\ local' = [local EXCEPT ![p] = [id |-> id, payload |-> payload]]

\* create: await SemesterRegistration.findOne({$or ...}) and its check.
createFindOneStatus(p, payload) ==
    /\ pc[p] = "idle"
    /\ IF CreateStatusCheck(registrations).error
       THEN Finish(p)
       ELSE Goto(p, "findSemester", 0, payload)
    /\ UNCHANGED <<academicSemesters, registrations, call, request, response>>

\* create: await AcademicSemister.findById(academicSemester) and its check.
createFindSemester(p) ==
    /\ pc[p] = "findSemester"
    /\ IF CreateSemesterCheck(academicSemesters, local[p].payload).error
       THEN Finish(p)
       ELSE Goto(p, "findDuplicate", 0, local[p].payload)
    /\ UNCHANGED <<academicSemesters, registrations, call, request, response>>

\* create: await SemesterRegistration.findOne({academicSemester}) and its check.
createFindDuplicate(p) ==
    /\ pc[p] = "findDuplicate"
    /\ IF CreateDuplicateCheck(registrations, local[p].payload).error
       THEN Finish(p)
       ELSE Goto(p, "create", 0, local[p].payload)
    /\ UNCHANGED <<academicSemesters, registrations, call, request, response>>

\* create: await SemesterRegistration.create(payload).
createDocument(p) ==
    /\ pc[p] = "create"
    /\ Len(registrations) < MaxRegs
    /\ registrations' = CreateWrite(registrations, Returned, local[p].payload)
    /\ Finish(p)
    /\ UNCHANGED <<academicSemesters, call, request, response>>

\* update: await SemesterRegistration.findById(id) and the checks on what it read.
updateFindById(p, id, payload) ==
    /\ pc[p] = "idle"
    /\ IF UpdateChecks(CurrentStatus(registrations, id), payload).error
       THEN Finish(p)
       ELSE Goto(p, "findByIdAndUpdate", id, payload)
    /\ UNCHANGED <<academicSemesters, registrations, call, request, response>>

\* update: await SemesterRegistration.findByIdAndUpdate(id, payload, ...).
updateFindByIdAndUpdate(p) ==
    /\ pc[p] = "findByIdAndUpdate"
    /\ registrations' =
           UpdateWrite(registrations, Returned, local[p].id, local[p].payload)
    /\ Finish(p)
    /\ UNCHANGED <<academicSemesters, call, request, response>>

NextConc ==
    \/ \E s \in SemesterIds : createAcademicSemester(s)
    \/ \E p \in Procs, payload \in ConcCreatePayloads : createFindOneStatus(p, payload)
    \/ \E p \in Procs : createFindSemester(p)
    \/ \E p \in Procs : createFindDuplicate(p)
    \/ \E p \in Procs : createDocument(p)
    \/ \E p \in Procs, id \in RegIds, payload \in ConcUpdatePayloads :
          updateFindById(p, id, payload)
    \/ \E p \in Procs : updateFindByIdAndUpdate(p)

SpecConc == Init /\ [][NextConc]_vars

\* ------------------------------------------------------ global error handler

\* undefined / null in an error object or an envelope.
Null == "null"

\* config.NODE_ENV values the process may be started with.
NodeEnvs == {"development", "production", "test"}

INTERNAL_SERVER_ERROR == 500

\* An AppError thrown by the service, as the object the handler receives.
AppErrorObject(outcome) ==
    [class |-> "AppError", name |-> "Error", code |-> 0,
     statusCode |-> outcome.statusCode, message |-> outcome.message,
     stack |-> "stack"]

\* An error that is no AppError: its class, name, code and statusCode
\* (0 for undefined) and its message.
ErrorObject(class, name, code, statusCode, message) ==
    [class |-> class, name |-> name, code |-> code, statusCode |-> statusCode,
     message |-> message, stack |-> IF class = "Object" THEN Null ELSE "stack"]

\* Collections on which the service's checks are evaluated to collect the
\* errors they throw.
SampleCollections ==
    {<<>>} \cup
    {<<doc>> : doc \in [academicSemester : SemesterIds,
                        status : RegistrationStatus,
                        startDate : {"D1"}]}

\* Every AppError createSemesterRegistrationInDb and
\* updateSemesterRegistrationIntoDb throw.
ThrownByService ==
    LET outcomes ==
            {CreateChecks(regs, sems, payload) :
                regs \in SampleCollections, sems \in SUBSET SemesterIds,
                payload \in CreatePayloads}
            \cup
            {UpdateChecks(current, payload) :
                current \in RegistrationStatus \cup {Absent},
                payload \in UpdatePayloads}
    IN  {AppErrorObject(outcome) : outcome \in {o \in outcomes : o.error}}

\* Errors that reach the handler from elsewhere: the persistence layer, the
\* validation middleware, a thrown value that is no Error.
ThrownByOthers ==
    {ErrorObject("Error", "Error", 0, 0, <<>>),
     ErrorObject("Error", "Error", 0, 0, <<"connection lost">>),
     ErrorObject("Error", "Error", 0, 503, <<"service unavailable">>),
     ErrorObject("Error", "ValidationError", 0, 0, <<"Validation failed">>),
     ErrorObject("Error", "ValidationEror", 0, 0, <<"Validation failed">>),
     ErrorObject("Error", "CastError", 0, 0, <<"Cast to ObjectId failed">>),
     ErrorObject("Error", "MongoServerError", 11000, 0, <<"E11000 duplicate key">>),
     ErrorObject("ZodError", "ZodError", 0, 0, <<"Required">>),
     ErrorObject("Object", Null, 0, 0, <<>>),
     ErrorObject("Object", Null, 0, 418, <<"teapot">>)}

Errors == ThrownByService \cup ThrownByOthers

\* err instanceof ZodError / AppError / Error
InstanceOfZodError(err) == err.class = "ZodError"

InstanceOfAppError(err) == err.class = "AppError"

InstanceOfError(err) == err.class \in {"Error", "AppError", "ZodError"}

\* zodErrorHandler, handleCastError, handleDuplicateError: the simplified
\* error of a malformed input.
zodErrorHandler(err) ==
    [statusCode |-> BAD_REQUEST, message |-> <<"Validation Error">>,
     errorSources |-> <<[path |-> "", message |-> err.message]>>]

handleCastError(err) ==
    [statusCode |-> BAD_REQUEST, message |-> <<"Invalid ID">>,
     errorSources |-> <<[path |-> "", message |-> err.message]>>]

handleDuplicateError(err) ==
    [statusCode |-> BAD_REQUEST, message |-> <<"Duplicate entry">>,
     errorSources |-> <<[path |-> "", message |-> err.message]>>]

\* Mutant of the stack field: the stack is sent in every mode but production.
StackField_NonProduction(err, nodeEnv) ==
    IF nodeEnv # "production" THEN err.stack ELSE Null

\* stack: config.NODE_ENV === 'development' ? err?.stack : null
StackField(err, nodeEnv) ==
    IF nodeEnv = "development" THEN err.stack ELSE Null

\* res.status(statusCode).json({success: false, message, errorSources,
\* gotError: err, stack: ...})
Envelope(statusCode, message, errorSources, err, nodeEnv) ==
    [kind |-> "error", statusCode |-> statusCode, success |-> FALSE,
     message |-> message, errorSources |-> errorSources, gotError |-> err,
     stack |-> StackField(err, nodeEnv)]

\* let statusCode = err.statusCode || 500
DefaultStatusCode(err) ==
    IF err.statusCode # 0 THEN err.statusCode ELSE INTERNAL_SERVER_ERROR

\* let message = err.message || 'Something went wrong'
DefaultMessage(err) ==
    IF err.message # <<>> THEN err.message ELSE <<"Something went wrong">>

DefaultErrorSources == <<[path |-> "", message |-> <<"Something went wrong!">>]>>

\* Mutant of the validation branch's test: the name is spelled correctly.
NamedValidationError_Spelled(err) == err.name = "ValidationError"

\* err?.name === 'ValidationEror'
NamedValidationError(err) == err.name = "ValidationEror"

\* Mutant of the AppError branch: the status code is left at its default.
AppErrorBranch_DefaultStatus(err, nodeEnv) ==
    Envelope(INTERNAL_SERVER_ERROR, err.message,
             <<[path |-> "", message |-> err.message]>>, err, nodeEnv)

\* The branch of err instanceof AppError.
AppErrorBranch(err, nodeEnv) ==
    Envelope(err.statusCode, err.message,
             <<[path |-> "", message |-> err.message]>>, err, nodeEnv)

\* The branch of err instanceof Error: the status code keeps its default.
ErrorBranch(err, nodeEnv) ==
    Envelope(DefaultStatusCode(err), err.message,
             <<[path |-> "", message |-> err.message]>>, err, nodeEnv)

\* The cascade of the handler's branches and the envelope it sends.
globalErrorHandler(err, nodeEnv) ==
    IF InstanceOfZodError(err)
    THEN Envelope(zodErrorHandler(err).statusCode, zodErrorHandler(err).message,
                  zodErrorHandler(err).errorSources, err, nodeEnv)
    ELSE IF NamedValidationError(err)
    THEN Envelope(zodErrorHandler(err).statusCode, zodErrorHandler(err).message,
                  zodErrorHandler(err).errorSources, err, nodeEnv)
    ELSE IF err.name = "CastError"
    THEN Envelope(handleCastError(err).statusCode, handleCastError(err).message,
                  handleCastError(err).errorSources, err, nodeEnv)
    ELSE IF err.code = 11000
    THEN Envelope(handleDuplicateError(err).statusCode,
                  handleDuplicateError(err).message,
                  handleDuplicateError(err).errorSources, err, nodeEnv)
    ELSE IF InstanceOfAppError(err) THEN AppErrorBranch(err, nodeEnv)
    ELSE IF InstanceOfError(err) THEN ErrorBranch(err, nodeEnv)
    ELSE Envelope(DefaultStatusCode(err), DefaultMessage(err),
                  DefaultErrorSources, err, nodeEnv)

\* An error reaches the handler (next(err)) and the handler answers.
handleError(err, nodeEnv) ==
    /\ request' = [kind |-> "error", err |-> err, nodeEnv |-> nodeEnv]
    /\ response' = globalErrorHandler(err, nodeEnv)
    /\ UNCHANGED <<academicSemesters, registrations, call, pc, local>>

\* ------------------------------------------------ academic semester list

\* Number of academic semesters in the listed collection.
ListedSemesters == 12

\* Raw query values of a list request (strings, Absent for a missing key).
SemesterSorts == {Absent, "year", "-year"}

SemesterLimits == {Absent, "5"}

SemesterPages == {Absent, "1", "2", "3"}

SemesterQueries == [sort : SemesterSorts, limit : SemesterLimits, page : SemesterPages]

\* Stored collections of ListedSemesters semesters with distinct years:
\* inserted by ascending year, by descending year, and even years first.
SemesterCollections ==
    {[i \in 1..ListedSemesters |-> [id |-> i, year |-> 2000 + i]],
     [i \in 1..ListedSemesters |-> [id |-> i, year |-> 2001 + ListedSemesters - i]],
     [i \in 1..ListedSemesters |->
        [id |-> i,
         year |-> IF 2 * i <= ListedSemesters
                  THEN 2000 + 2 * i
                  ELSE 1999 + 2 * (i - ListedSemesters \div 2)]]}

\* AcademicSemesterServices.getAllAcademicSemesterFromDb(): called with no
\* argument, it yields the stored documents.
getAllAcademicSemesterFromDb(collection) == collection

\* The controller: req.query is not read, the service is called without it.
getAllAcademicSemesterData(collection, query) ==
    [kind |-> "list", statusCode |-> OK, success |-> TRUE,
     data |-> getAllAcademicSemesterFromDb(collection)]

\* A list request for academic semesters is answered.
listAcademicSemesters(collection, query) ==
    /\ request' = [kind |-> "listSemesters", collection |-> collection,
                   query |-> query]
    /\ response' = getAllAcademicSemesterData(collection, query)
    /\ UNCHANGED <<academicSemesters, registrations, call, pc, local>>

\* ------------------------------------------- semester registration list

\* Raw page and limit values of a list request: missing, non-numeric,
\* negative, zero and positive.
PageRaws == {Absent, "abc", "-1", "0", "1", "2", "3"}

LimitRaws == {Absent, "abc", "-2", "0", "1", "2", "10"}

RegistrationQueries ==
    [status : {Absent, ENDED}, sort : {Absent, "createdAt"},
     page : PageRaws, limit : LimitRaws]

\* Stored registrations a list request runs over.
RegistrationCollections ==
    {<<>>,
     <<[academicSemester |-> "S1", status |-> ENDED, startDate |-> "D1"],
       [academicSemester |-> "S2", status |-> ENDED, startDate |-> "D2"],
       [academicSemester |-> "S1", status |-> UPCOMING, startDate |-> "D2"]>>}

\* Number(raw) is a number (not NaN).
IsNumeric(raw) == raw \in {"-2", "-1", "0", "1", "2", "3", "10"}

\* Number(raw) of a numeric raw value.
NumberOf(raw) ==
    CASE raw = "-2" -> -2
      [] raw = "-1" -> -1
      [] raw = "0" -> 0
      [] raw = "1" -> 1
      [] raw = "2" -> 2
      [] raw = "3" -> 3
      [] raw = "10" -> 10

DefaultPage == 1

DefaultLimit == 10

\* new QueryBuilder(SemesterRegistration.find().populate('academicSemester'), query)
QueryBuilder ==
    [populate |-> "academicSemester", filter |-> Absent, sort |-> Absent,
     skip |-> 0, limit |-> 0, fields |-> Absent]

\* filter(): the non-reserved keys of the query become equality filters.
filter(builder, query) == [builder EXCEPT !.filter = query.status]

\* sort(): the query's sort, -createdAt when missing.
sort(builder, query) ==
    [builder EXCEPT !.sort = IF query.sort = Absent THEN "-createdAt" ELSE query.sort]

\* A raw page or limit coerced to a positive integer, the default otherwise.
Coerce(raw, default) ==
    IF IsNumeric(raw) /\ NumberOf(raw) > 0 THEN NumberOf(raw) ELSE default

\* paginate(): skip = (page - 1) * limit, then limit.
paginate(builder, query) ==
    LET page == Coerce(query.page, DefaultPage)
        limit == Coerce(query.limit, DefaultLimit)
    IN  [builder EXCEPT !.skip = (page - 1) * limit, !.limit = limit]

\* fields(): the version field is excluded when the query names no fields.
fields(builder, query) == [builder EXCEPT !.fields = "-__v"]

\* await modelQuery: the documents the composed query yields.
Execute(builder, collection) ==
    LET matching == SelectSeq(collection,
                       LAMBDA doc : builder.filter = Absent
                                    \/ doc.status = builder.filter)
        sorted == IF builder.sort = "-createdAt"
                  THEN [k \in 1..Len(matching) |-> matching[Len(matching) + 1 - k]]
                  ELSE matching
        first == builder.skip + 1
        last == IF builder.limit = 0 \/ builder.skip + builder.limit > Len(sorted)
                THEN Len(sorted) ELSE builder.skip + builder.limit
    IN  [k \in 1..(IF last >= first THEN last - first + 1 ELSE 0) |->
            sorted[first + k - 1]]

\* Mutant of the list service: the paginate stage is left out of the chain.
getAllSemesterRegistrationsFromDb_NoPaginate(query) ==
    fields(sort(filter(QueryBuilder, query), query), query)

\* The composed query: .filter().sort().paginate().fields()
getAllSemesterRegistrationsFromDb(query) ==
    fields(paginate(sort(filter(QueryBuilder, query), query), query), query)

\* A list request for semester registrations is answered.
listSemesterRegistrations(collection, query) ==
    /\ request' = [kind |-> "listRegistrations", collection |-> collection,
                   query |-> query]
    /\ response' =
         [kind |-> "list", statusCode |-> OK, success |-> TRUE,
          modelQuery |-> getAllSemesterRegistrationsFromDb(query),
          data |-> Execute(getAllSemesterRegistrationsFromDb(query), collection)]
    /\ UNCHANGED <<academicSemesters, registrations, call, pc, local>>

\* ------------------------------------------------------- validateRequest

\* Keys a request body may carry.
BodyKeys == {"academicSemester", "status", "startDate"}

\* A schema is the set of keys it requires in the body.
Schemas == {{}, {"academicSemester"}, {"academicSemester", "startDate"}}

\* schema.parseAsync({body: req.body}): resolves, or rejects with a ZodError.
parseAsync(schema, body) ==
    IF schema \subseteq body
    THEN [rejected |-> FALSE]
    ELSE [rejected |-> TRUE,
          err |-> ErrorObject("ZodError", "ZodError", 0, 0, <<"Required">>)]

\* next() and next(err), as the calls the middleware makes.
NextCall == [withError |-> FALSE]

NextCallWith(err) == [withError |-> TRUE, err |-> err]

\* Mutant of the middleware: next() follows the try/catch block, so it is
\* called after next(err) too.
validateRequest_NextAfterCatch(schema, body) ==
    IF ~parseAsync(schema, body).rejected
    THEN <<NextCall>>
    ELSE <<NextCallWith(parseAsync(schema, body).err), NextCall>>

\* The middleware returned by validateRequest(schema): the calls of next it
\* makes, in order.
validateRequest(schema, body) ==
    IF ~parseAsync(schema, body).rejected
    THEN <<NextCall>>
    ELSE <<NextCallWith(parseAsync(schema, body).err)>>

\* A request passes through validateRequest(schema); next() runs the route
\* handler, next(err) skips it and runs the error handler.
validate(schema, body) ==
    LET calls == validateRequest(schema, body)
    IN  /\ request' = [kind |-> "validate", schema |-> schema, body |-> body]
        /\ response' =
             [kind |-> "next", calls |-> calls,
              routeHandler |-> \E k \in 1..Len(calls) : ~calls[k].withError,
              errorHandler |-> \E k \in 1..Len(calls) : calls[k].withError]
        /\ UNCHANGED <<academicSemesters, registrations, call, pc, local>>

\* -------------------------------------------------- one request at a time

NextHttp ==
    \/ \E err \in Errors, nodeEnv \in NodeEnvs : handleError(err, nodeEnv)
    \/ \E collection \in SemesterCollections, query \in SemesterQueries :
          listAcademicSemesters(collection, query)
    \/ \E collection \in RegistrationCollections, query \in RegistrationQueries :
          listSemesterRegistrations(collection, query)
    \/ \E schema \in Schemas, body \in SUBSET BodyKeys : validate(schema, body)

SpecHttp == Init /\ [][NextHttp]_vars

\* ------------------------------------------------------------ claim helpers

\* The registrations whose status is UPCOMING or ONGOING.
InFlight(regs) == {i \in 1..Len(regs) : regs[i].status \in {UPCOMING, ONGOING}}

\* The registrations that reference a semester.
Referencing(regs, s) == {i \in 1..Len(regs) : regs[i].academicSemester = s}

\* The message names a status: the status is one of its interpolated values.
Names(message, status) == \E k \in 1..Len(message) : message[k] = status

\* The allowed-edges table of the update protocol.
AllowedEdge(c, r) ==
    \/ c = UPCOMING /\ r = ONGOING
    \/ c = ONGOING /\ r = ENDED
    \/ r = c /\ c # ENDED

\* One step forward, or none, in the order UPCOMING < ONGOING < ENDED.
ForwardOrSame(c, n) ==
    \/ n = c
    \/ c = UPCOMING /\ n = ONGOING
    \/ c = ONGOING /\ n = ENDED

\* ------------------------------------------------------------------- claims

\* C1: with calls run to completion, starting from an empty collection, at
\* most one registration has status UPCOMING or ONGOING.
C1_SingleInFlight ==
    \A i, j \in InFlight(registrations) : i = j

\* C1 witness: creates and an update have acted; an ENDED registration and an
\* in-flight one stand side by side.
C1_Witness ==
    /\ Len(registrations) = 2
    /\ registrations[1].status = ENDED
    /\ registrations[2].status = ONGOING
    /\ call.op = "update"
    /\ ~call.outcome.error

\* C2: with create requests interleaving at their persistence calls, the
\* collection never holds more than one UPCOMING or ONGOING registration.
C2_SingleInFlightUnderRace ==
    Cardinality(InFlight(registrations)) <= 1

\* C3: no two registrations reference the same academicSemester.
C3_OneRegistrationPerSemester ==
    \A s \in SemesterIds : Cardinality(Referencing(registrations, s)) <= 1

\* C4 as claimed: an update of a record with status c requesting status r is
\* accepted iff the edge is allowed, and every rejected edge is a BadRequest
\* whose message names both c and r.
C4_EdgeTableNamesBoth ==
    (call.op = "update" /\ call.current \in RegistrationStatus
        /\ call.payload.status \in RegistrationStatus)
    => /\ ~call.outcome.error <=> AllowedEdge(call.current, call.payload.status)
       /\ call.outcome.error =>
            /\ call.outcome.statusCode = BAD_REQUEST
            /\ Names(call.outcome.message, call.current)
            /\ Names(call.outcome.message, call.payload.status)

\* C4 as amended: an update of a record with status c requesting status r is
\* accepted iff the edge is allowed; every rejected edge is a BadRequest whose
\* message names c; it names r too when c is not ENDED, and when c is ENDED
\* it is "This semester is already ENDED", whatever r is.
C4_EdgeTable ==
    (call.op = "update" /\ call.current \in RegistrationStatus
        /\ call.payload.status \in RegistrationStatus)
    => /\ ~call.outcome.error <=> AllowedEdge(call.current, call.payload.status)
       /\ call.outcome.error =>
            /\ call.outcome.statusCode = BAD_REQUEST
            /\ Names(call.outcome.message, call.current)
            /\ call.current # ENDED =>
                  Names(call.outcome.message, call.payload.status)
            /\ call.current = ENDED =>
                  call.outcome.message = <<"This semester is already", ENDED>>

\* C4 witness: an ENDED record was asked to become ONGOING and the update
\* was rejected.
C4_Witness ==
    /\ call.op = "update"
    /\ call.current = ENDED
    /\ call.payload.status = ONGOING
    /\ call.outcome.error

C6_StatusMovesForward ==
    [][\A i \in 1..Len(registrations) :
          ForwardOrSame(registrations[i].status, registrations'[i].status)]_vars

\* C7: create reports the error of the first failing check, in the order
\* (1) in-flight registration exists, (2) semester does not exist,
\* (3) semester already registered.
C7_FirstFailingCheckWins ==
    [][call'.op = "create" =>
         LET payload == call'.payload
             inFlight == InFlight(registrations) # {}
             missing == payload.academicSemester \notin academicSemesters
             taken == Referencing(registrations, payload.academicSemester) # {}
             message == call'.outcome.message
         IN  /\ inFlight =>
                  /\ call'.outcome.error
                  /\ message[1] = "There is already a semester with status"
             /\ (~inFlight /\ missing) =>
                  /\ call'.outcome.error
                  /\ message = <<"This academic semester does not exist!">>
             /\ (~inFlight /\ ~missing /\ taken) =>
                  /\ call'.outcome.error
                  /\ message = <<"This semester already exists">>
             /\ (~inFlight /\ ~missing /\ ~taken) => ~call'.outcome.error]_vars

\* C7 witness: a create failed all three checks at once (a registration is in
\* flight, the semester does not exist, a registration references it) and the
\* first check's error was reported.
C7_Witness ==
    /\ call.op = "create"
    /\ call.outcome.error
    /\ InFlight(registrations) # {}
    /\ call.payload.academicSemester \notin academicSemesters
    /\ Referencing(registrations, call.payload.academicSemester) # {}
    /\ call.outcome.message[1] = "There is already a semester with status"

\* C8: whenever a registration is UPCOMING or ONGOING, create is rejected with
\* a Conflict (409) whose message names the in-flight registration's status.
C8_InFlightIsConflict ==
    [][(call'.op = "create" /\ InFlight(registrations) # {}) =>
         /\ call'.outcome.error
         /\ call'.outcome.statusCode = CONFLICT
         /\ \E i \in InFlight(registrations) :
               Names(call'.outcome.message, registrations[i].status)]_vars

\* C9: a create or update call that ends in an error leaves the registration
\* collection as it was before the call.
C9_FailedCallWritesNothing ==
    [][(call'.op \in {"create", "update"} /\ call'.outcome.error) =>
         registrations' = registrations]_vars

\* C9 witness: an update of an existing record failed with a payload that
\* would have changed the record.
C9_Witness ==
    /\ call.op = "update"
    /\ call.outcome.error
    /\ call.current = UPCOMING
    /\ call.payload.status = ENDED
    /\ call.payload.startDate # Absent
    /\ call.payload.startDate # registrations[call.id].startDate

\* C10: create succeeds exactly when no registration is in flight, the
\* semester exists and no registration references it; it then appends one
\* registration referencing the semester, UPCOMING when the payload carries no
\* status; no other step adds or removes a registration.
C10_CreateAddsOne ==
    [][LET payload == call'.payload
           n == Len(registrations)
           free == /\ InFlight(registrations) = {}
                   /\ payload.academicSemester \in academicSemesters
                   /\ Referencing(registrations, payload.academicSemester) = {}
       IN  /\ (call'.op = "create" /\ free) =>
                /\ ~call'.outcome.error
                /\ Len(registrations') = n + 1
                /\ SubSeq(registrations', 1, n) = registrations
                /\ registrations'[n + 1].academicSemester = payload.academicSemester
                /\ registrations'[n + 1].startDate = payload.startDate
                /\ registrations'[n + 1].status =
                       IF payload.status = Absent THEN UPCOMING ELSE payload.status
           /\ Len(registrations') # n => (call'.op = "create" /\ free)]_vars

\* C10 witness: a create with no status field succeeded on a collection that
\* already held a registration, and the new registration is UPCOMING.
C10_Witness ==
    /\ call.op = "create"
    /\ ~call.outcome.error
    /\ call.payload.status = Absent
    /\ Len(registrations) = 2
    /\ registrations[2].status = UPCOMING
    /\ registrations[2].academicSemester = call.payload.academicSemester

\* C11: for every error the registration create/update operations raise, the
\* handler sends success = false with status 404 for NotFound, 409 for
\* Conflict, 400 for BadRequest; a generic error with no status code gets 500.
C11_ErrorStatusCodes ==
    request.kind = "error" =>
        LET err == request.err
            generic == /\ err.class \in {"Error", "Object"}
                       /\ err.name \in {"Error", "ValidationError", Null}
                       /\ err.code = 0
                       /\ err.statusCode = 0
        IN  /\ response.success = FALSE
            /\ err \in ThrownByService =>
                 /\ err.statusCode \in {NOT_FOUND, CONFLICT, BAD_REQUEST}
                 /\ err.statusCode = NOT_FOUND => response.statusCode = 404
                 /\ err.statusCode = CONFLICT => response.statusCode = 409
                 /\ err.statusCode = BAD_REQUEST => response.statusCode = 400
            /\ generic => response.statusCode = 500

\* C11 witness: the service's Conflict error was handled and answered with 409.
C11_Witness ==
    /\ request.kind = "error"
    /\ request.err \in ThrownByService
    /\ request.err.message = <<"This semester already exists">>
    /\ response.statusCode = 409
    /\ response.success = FALSE

\* C14 as claimed: the envelope carries the error's stack in every
\* non-production mode and no stack in production.
C14_StackInNonProduction ==
    request.kind = "error" =>
        /\ request.nodeEnv # "production" => response.stack = request.err.stack
        /\ request.nodeEnv = "production" => response.stack = Null

\* C14 as amended: the envelope carries the error's stack when NODE_ENV is
\* 'development' and no stack in production and in every other mode.
C14_StackInDevelopmentOnly ==
    request.kind = "error" =>
        /\ request.nodeEnv = "development" => response.stack = request.err.stack
        /\ request.nodeEnv # "development" => response.stack = Null

\* C14 witness: an error with a stack was handled in mode 'test' and the
\* envelope carries no stack.
C14_Witness ==
    /\ request.kind = "error"
    /\ request.nodeEnv = "test"
    /\ request.err.stack # Null
    /\ response.stack = Null

RankedByYearDesc(collection) ==
    [k \in 1..Len(collection) |->
        CHOOSE doc \in {collection[i] : i \in 1..Len(collection)} :
            Cardinality({i \in 1..Len(collection) :
                            collection[i].year > doc.year}) = k - 1]

\* The documents of a sequence from rank first to rank last.
Ranks(ranked, first, last) ==
    [k \in 1..(IF last >= first THEN last - first + 1 ELSE 0) |->
        ranked[first + k - 1]]

\* A sequence in reverse order.
Reversed(seq) == [k \in 1..Len(seq) |-> seq[Len(seq) + 1 - k]]

\* The number a raw page or limit of a semester list request stands for.
SemesterQueryNumber(raw, default) ==
    CASE raw = "1" -> 1
      [] raw = "2" -> 2
      [] raw = "3" -> 3
      [] raw = "5" -> 5
      [] OTHER -> default

\* The page a query selects: the collection sorted as the query asks (by
\* creation, newest first, when it does not), then page and limit applied
\* (page 1 and limit 10 when missing).
SelectedPage(collection, query) ==
    LET sorted == CASE query.sort = "-year" -> RankedByYearDesc(collection)
                    [] query.sort = "year" -> Reversed(RankedByYearDesc(collection))
                    [] OTHER -> Reversed(collection)
        page == SemesterQueryNumber(query.page, 1)
        limit == SemesterQueryNumber(query.limit, 10)
        first == (page - 1) * limit + 1
        last == IF page * limit <= Len(sorted) THEN page * limit ELSE Len(sorted)
    IN  Ranks(sorted, first, last)

\* C12: a list request for academic semesters returns the page selected by
\* its sort, page and limit; {sort: "-year", limit: "5", page: "2"} over 12
\* semesters returns the records ranked 6 to 10 by descending year.
C12_ListReturnsSelectedPage ==
    request.kind = "listSemesters" =>
        /\ response.data = SelectedPage(request.collection, request.query)
        /\ (/\ request.query = [sort |-> "-year", limit |-> "5", page |-> "2"]
            /\ Len(request.collection) = 12)
           => response.data = Ranks(RankedByYearDesc(request.collection), 6, 10)


\* The positive integer a raw page or limit spells, 0 when it spells none.
PositiveInteger(raw) ==
    CASE raw = "1" -> 1
      [] raw = "2" -> 2
      [] raw = "3" -> 3
      [] raw = "10" -> 10
      [] OTHER -> 0

\* C13: the paginate stage of the registration list never produces a
\* negative skip; a page or limit that is missing, non-numeric, zero or
\* negative is replaced by its default (page 1, limit 10), and for positive
\* integers p and l the skip is exactly (p - 1) * l.
C13_PaginateSkip ==
    request.kind = "listRegistrations" =>
        LET p == IF PositiveInteger(request.query.page) = 0
                 THEN 1 ELSE PositiveInteger(request.query.page)
            l == IF PositiveInteger(request.query.limit) = 0
                 THEN 10 ELSE PositiveInteger(request.query.limit)
        IN  /\ response.modelQuery.skip >= 0
            /\ response.modelQuery.skip = (p - 1) * l
            /\ response.modelQuery.limit = l

\* C13 witness: a request with page 3 and a negative limit was answered with
\* skip 20 and limit 10.
C13_Witness ==
    /\ request.kind = "listRegistrations"
    /\ request.query.page = "3"
    /\ request.query.limit = "-2"
    /\ response.modelQuery.skip = 20
    /\ response.modelQuery.limit = 10

\* C15: a body that fails the schema never reaches the route handler and the
\* validation error is forwarded with next(err); a body that passes gets
\* next() with no error; next is called exactly once either way.
C15_NextCalledOnce ==
    request.kind = "validate" =>
        /\ Len(response.calls) = 1
        /\ request.schema \subseteq request.body =>
             /\ ~response.calls[1].withError
             /\ response.routeHandler
             /\ ~response.errorHandler
        /\ ~(request.schema \subseteq request.body) =>
             /\ response.calls[1].withError
             /\ response.calls[1].err.class = "ZodError"
             /\ ~response.routeHandler
             /\ response.errorHandler

\* C15 witness: a body missing a required key went through the middleware
\* and its error was forwarded.
C15_Witness ==
    /\ request.kind = "validate"
    /\ request.schema = {"academicSemester", "startDate"}
    /\ request.body = {"academicSemester", "status"}
    /\ response.errorHandler

\* C16: update checks, in order, (1) no registration for the id -> NotFound,
\* (2) current status ENDED -> BadRequest "already ENDED", (3) illegal
\* transition -> BadRequest: a nonexistent id yields NotFound for every
\* payload, an ENDED record yields "already ENDED" for every payload.
C16_UpdateCheckOrder ==
    [][call'.op = "update" =>
         LET id == call'.id
             exists == id \in 1..Len(registrations)
             requested == call'.payload.status
         IN  /\ ~exists =>
                  call'.outcome = AppError(NOT_FOUND, <<"This semester does not exist">>)
             /\ (exists /\ registrations[id].status = ENDED) =>
                  call'.outcome =
                      AppError(BAD_REQUEST, <<"This semester is already", ENDED>>)
             /\ (exists /\ registrations[id].status # ENDED /\ requested # Absent
                   /\ ~AllowedEdge(registrations[id].status, requested)) =>
                  call'.outcome =
                      AppError(BAD_REQUEST,
                               <<"Can not change", registrations[id].status,
                                 "to", requested>>)]_vars

\* C16 witness: an update of an ENDED record asking for ENDED again was
\* rejected with "already ENDED".
C16_Witness ==
    /\ call.op = "update"
    /\ call.current = ENDED
    /\ call.payload.status = ENDED
    /\ call.outcome = AppError(BAD_REQUEST, <<"This semester is already", ENDED>>)

\* C18: an update with no status field on an UPCOMING or ONGOING registration
\* is accepted and leaves its status unchanged; an update changes no other
\* registration and neither adds nor removes one.
C18_UpdateFrame ==
    [][call'.op = "update" =>
         LET id == call'.id
         IN  /\ Len(registrations') = Len(registrations)
             /\ \A i \in 1..Len(registrations) :
                    i # id => registrations'[i] = registrations[i]
             /\ (/\ id \in 1..Len(registrations)
                 /\ registrations[id].status \in {UPCOMING, ONGOING}
                 /\ call'.payload.status = Absent)
                => /\ ~call'.outcome.error
                   /\ registrations'[id].status = registrations[id].status]_vars

\* C18 witness: an update carrying only a new startDate was accepted on an
\* ONGOING registration while another registration exists.
C18_Witness ==
    /\ call.op = "update"
    /\ call.payload.status = Absent
    /\ call.payload.startDate # Absent
    /\ call.current = ONGOING
    /\ ~call.outcome.error
    /\ Len(registrations) = 2
    /\ registrations[call.id].status = ONGOING
    /\ registrations[call.id].startDate = call.payload.startDate

\* C19: while a registration is UPCOMING or ONGOING every create is rejected;
\* once every registration is ENDED, a create for an existing academic
\* semester that no registration references is accepted.
C19_LockReleasedByEnding ==
    [][call'.op = "create" =>
         /\ (\E i \in 1..Len(registrations) : registrations[i].status # ENDED)
              => (call'.outcome.error /\ registrations' = registrations)
         /\ (/\ \A i \in 1..Len(registrations) : registrations[i].status = ENDED
             /\ call'.payload.academicSemester \in academicSemesters
             /\ \A i \in 1..Len(registrations) :
                   registrations[i].academicSemester # call'.payload.academicSemester)
              => (~call'.outcome.error /\ Len(registrations') = Len(registrations) + 1)]_vars

\* C19 witness: the first registration is ENDED and a create for another
\* semester was accepted after it.
C19_Witness ==
    /\ call.op = "create"
    /\ ~call.outcome.error
    /\ Len(registrations) = 2
    /\ registrations[1].status = ENDED
    /\ registrations[2].academicSemester # registrations[1].academicSemester

====
